---- MODULE Spec2Model ----
(***************************************************************************)
(* Model of packages/react-native/cli.js: the version check, the           *)
(* deprecation gate and the hand-off to @react-native-community/cli, plus  *)
(* the library-load path of the module.                                    *)
(*                                                                         *)
(* JavaScript strings that the code takes apart (version strings) are      *)
(* sequences of one-character strings.  JavaScript values that flow        *)
(* through parseVersion are records [t, n, s]: t is the type tag           *)
(* ("num", "nan" for the number NaN, "str", "undef"), n the value of a     *)
(* number and s the characters of a string.                                *)
(*                                                                         *)
(* Time is Date.getTime() in milliseconds, measured from the instant       *)
(* CLI_DEPRECATION_DATE.getTime(), so the cutoff itself is 0.              *)
(***************************************************************************)
EXTENDS Integers, Sequences, FiniteSets, TLC

\* ------------------------------------------------------------------------
\* Bounds of the model
\* ------------------------------------------------------------------------

\* the clock ranges over [-MaxDays days, +1 day] around the cutoff; it counts
\* milliseconds, so MaxDays stays below 24 to keep every difference of two
\* instants within the 32-bit integers of the model checker
MaxDays == 12

\* largest major number of the generated release versions
MaxMajor == 2

\* ------------------------------------------------------------------------
\* JavaScript strings and values
\* ------------------------------------------------------------------------

Digits == <<"0", "1", "2", "3", "4", "5", "6", "7", "8", "9">>

IsDigit(c) == c \in {Digits[i] : i \in 1..10}

DigitVal(c) == CHOOSE d \in 0..9 : Digits[d + 1] = c

\* UTF-16 code unit of the characters that occur in the model
CharCode(c) ==
  CASE c = "-" -> 45
    [] c = "." -> 46
    [] IsDigit(c) -> 48 + DigitVal(c)
    [] c = "N" -> 78
    [] c = "a" -> 97
    [] c = "b" -> 98
    [] c = "c" -> 99
    [] c = "r" -> 114
    [] OTHER -> 120

Num(k) == [t |-> "num", n |-> k, s |-> <<>>]
NaN == [t |-> "nan", n |-> 0, s |-> <<>>]
Str(cs) == [t |-> "str", n |-> 0, s |-> cs]
Undefined == [t |-> "undef", n |-> 0, s |-> <<>>]

RECURSIVE NatToDigits(_)
\* Number.prototype.toString for a non-negative integer
NatToDigits(k) ==
  IF k < 10 THEN <<Digits[k + 1]>>
  ELSE NatToDigits(k \div 10) \o <<Digits[(k % 10) + 1]>>

RECURSIVE DigitsToNat(_)
DigitsToNat(cs) ==
  IF cs = <<>> THEN 0
  ELSE 10 * DigitsToNat(SubSeq(cs, 1, Len(cs) - 1)) + DigitVal(cs[Len(cs)])

AllDigits(cs) == \A i \in 1..Len(cs) : IsDigit(cs[i])

\* ToNumber: a string of decimal digits is its value, the empty string is 0,
\* any other string of the model's alphabet is NaN
ToNumber(v) ==
  CASE v.t = "num" -> v
    [] v.t = "nan" -> NaN
    [] v.t = "undef" -> NaN
    [] v.t = "str" -> IF AllDigits(v.s) THEN Num(DigitsToNat(v.s)) ELSE NaN

\* ToString of a number or a string
ToStr(v) ==
  CASE v.t = "str" -> v.s
    [] v.t = "num" -> NatToDigits(v.n)
    [] v.t = "nan" -> <<"N", "a", "N">>
    [] v.t = "undef" -> <<"u">>

\* the JavaScript operator *
JsMul(x, y) ==
  LET a == ToNumber(x)
      b == ToNumber(y)
  IN IF a.t = "nan" \/ b.t = "nan" THEN NaN ELSE Num(a.n * b.n)

JsAddNumeric(x, y) ==
  LET a == ToNumber(x)
      b == ToNumber(y)
  IN IF a.t = "nan" \/ b.t = "nan" THEN NaN ELSE Num(a.n + b.n)

\* the JavaScript operator +: concatenation as soon as one operand is a string
JsAdd(x, y) ==
  IF x.t = "str" \/ y.t = "str"
  THEN Str(ToStr(x) \o ToStr(y))
  ELSE JsAddNumeric(x, y)

RECURSIVE SeqLess(_, _)
\* code-unit order of two strings (the order < uses when both sides are strings)
SeqLess(a, b) ==
  IF b = <<>> THEN FALSE
  ELSE IF a = <<>> THEN TRUE
  ELSE IF CharCode(a[1]) # CharCode(b[1]) THEN CharCode(a[1]) < CharCode(b[1])
  ELSE SeqLess(Tail(a), Tail(b))

RECURSIVE StripZeros(_)
StripZeros(cs) ==
  IF Len(cs) > 1 /\ cs[1] = "0" THEN StripZeros(Tail(cs)) ELSE cs

\* canonical decimal digits of a numeric operand (a number, or a string of
\* digits of any length, which ToNumber reads as its decimal value)
NumericDigits(v) ==
  IF v.t = "num" THEN NatToDigits(v.n)
  ELSE IF v.s = <<>> THEN <<"0">>
  ELSE StripZeros(v.s)

IsNumeric(v) == v.t = "num" \/ (v.t = "str" /\ AllDigits(v.s))

JsGreaterNumeric(x, y) ==
  IF ~IsNumeric(x) \/ ~IsNumeric(y) THEN FALSE
  ELSE LET a == NumericDigits(x)
           b == NumericDigits(y)
       IN \/ Len(a) > Len(b)
          \/ Len(a) = Len(b) /\ SeqLess(b, a)

\* the JavaScript operator >: two strings are compared as strings,
\* anything else as numbers (a comparison with NaN is false)
JsGreater(x, y) ==
  IF x.t = "str" /\ y.t = "str" THEN SeqLess(y.s, x.s)
  ELSE JsGreaterNumeric(x, y)

RECURSIVE SplitFrom(_, _, _)
SplitFrom(cs, sep, cur) ==
  IF cs = <<>> THEN <<cur>>
  ELSE IF cs[1] = sep THEN <<cur>> \o SplitFrom(Tail(cs), sep, <<>>)
  ELSE SplitFrom(Tail(cs), sep, Append(cur, cs[1]))

\* String.prototype.split with a one-character separator
Split(cs, sep) == SplitFrom(cs, sep, <<>>)

\* String.prototype.startsWith
StartsWith(cs, prefix) ==
  /\ Len(cs) >= Len(prefix)
  /\ SubSeq(cs, 1, Len(prefix)) = prefix

\* ------------------------------------------------------------------------
\* parseVersion
\* ------------------------------------------------------------------------

\* function parseVersion(version), version a string
parseVersion(version) ==
  LET parts == Split(Split(version, "-")[1], ".")
      major == Str(parts[1])
      minor == IF Len(parts) >= 2 THEN Str(parts[2]) ELSE Num(0)
      patch == IF Len(parts) >= 3 THEN Str(parts[3]) ELSE Num(0)
  IN JsAdd(JsAdd(JsMul(major, Num(1000000)), JsMul(minor, Num(1000))), patch)

\* the test of main: parseVersion(latest) > parseVersion(currentVersion)
IsNewer(latestStr, currentStr) ==
  JsGreater(parseVersion(latestStr), parseVersion(currentStr))

\* ------------------------------------------------------------------------
\* State and constants of the module
\* ------------------------------------------------------------------------

VARIABLES
  currentVersion,  \* version of ./package.json, a string
  argv,            \* process.argv.slice(2)
  env,             \* process.env: npm_lifecycle_event, SKIP, npm_config_registry
  clock,           \* what new Date().getTime() returns now
  pc,              \* position of the module: load, await, gate, proceed, done
  requireMain,     \* require.main === module
  nowAtGate,       \* what new Date().getTime() returned to main
  isDeprecated,    \* the constant isDeprecated of main
  fetched,         \* how getLatestVersion settled: none, rejected, resolved
  latest,          \* the value getLatestVersion resolved with
  loadError,       \* the error require('@react-native-community/cli') raised
  log,             \* the observable events of the run, in order
  thrown,          \* the error that left main or the module body
  cli,             \* module.exports
  pv               \* the state of the parseVersion harness

vars == <<currentVersion, argv, env, clock, pc, requireMain, nowAtGate, isDeprecated,
          fetched, latest, loadError, log, thrown, cli, pv>>

\* an environment variable that is not set, an argument that is absent
Unset == "<undefined>"

\* truthiness of a string or undefined
Truthy(x) == x # Unset /\ x # ""

MkVersion(major, minor, patch) ==
  NatToDigits(major) \o <<".">> \o NatToDigits(minor) \o <<".">> \o NatToDigits(patch)

HEAD == MkVersion(1000, 0, 0)

\* 86_400_000, the milliseconds of a day
DayMs == 86400000

\* CLI_DEPRECATION_DATE.getTime(), the origin of the model's time
CutoffTime == 0

Prefix075 == <<"0", ".", "7", "5">>
Prefix076 == <<"0", ".", "7", "6">>

isNpxRuntime == env.npm_lifecycle_event = "npx"

DEFAULT_REGISTRY_HOST ==
  IF env.npm_config_registry = Unset
  THEN "https://registry.npmjs.org/"
  ELSE env.npm_config_registry

\* new URL(host) succeeds
ValidUrl(host) == host \in {"https://registry.npmjs.org/", "https://npm.example.org/"}

\* process.argv[2]
Argv2 == IF Len(argv) >= 1 THEN argv[1] ELSE Unset

\* ------------------------------------------------------------------------
\* Errors of require('@react-native-community/cli')
\* ------------------------------------------------------------------------

CliPackage == "@react-native-community/cli"

NoError == [code |-> Unset, message |-> <<>>]

\* the package itself is not installed
CliNotFound ==
  [code |-> "MODULE_NOT_FOUND",
   message |-> <<"Cannot find module '", CliPackage, "'">>]

\* a dependency of the package is missing; the require stack names the package
DepNotFound ==
  [code |-> "MODULE_NOT_FOUND",
   message |-> <<"Cannot find module '", "commander", "' Require stack: ",
                 CliPackage, "/build/index.js">>]

\* the package is found and fails to load
LoadFailure ==
  [code |-> "ERR_REQUIRE_ESM",
   message |-> <<"require() of ES Module ", CliPackage, "/build/index.js">>]

\* an error without a code and without the package's name
SyntaxFailure == [code |-> Unset, message |-> <<"Unexpected token">>]

RequireErrors == {CliNotFound, DepNotFound, LoadFailure, SyntaxFailure}

\* what require('@react-native-community/cli') can do: return or throw
RequireOutcomes == {NoError} \cup RequireErrors

\* /@react-native-community\/cli/.test(message)
MentionsCli(message) == \E i \in 1..Len(message) : message[i] = CliPackage

\* the JavaScript operator ! applied to a string or undefined: a boolean
JsNot(x) == [type |-> "boolean", bool |-> ~Truthy(x)]

JsString(x) == [type |-> "string", str |-> x]

\* the JavaScript operator ===: values of different types are never equal
StrictEquals(x, y) == x.type = y.type /\ x = y

\* the condition under which the catch of the load path rethrows:
\* !e.code === 'MODULE_NOT_FOUND' && /@react-native-community\/cli/.test(e.message)
Rethrows(e) ==
  /\ StrictEquals(JsNot(e.code), JsString("MODULE_NOT_FOUND"))
  /\ MentionsCli(e.message)

\* the stub object cli starts as, and the resolved package
StubCli == "stub"
CommunityCli == "community-cli"

\* ------------------------------------------------------------------------
\* Console output and other events
\* ------------------------------------------------------------------------

Ev(name) == [ev |-> name, n |-> 0, emph |-> "", plural |-> FALSE]

\* Math.ceil(x / d) for d > 0
CeilDiv(x, d) == IF x % d = 0 THEN x \div d ELSE (x \div d) + 1

daysRemainingAt(now) == CeilDiv(CutoffTime - now, DayMs)

emphasis(daysRemaining) ==
  IF daysRemaining < 10 THEN "bgRed.white.bold"
  ELSE IF daysRemaining < 30 THEN "red.bold"
  ELSE IF daysRemaining < 60 THEN "green.bold"
  ELSE "blueBright.bold"

\* variant: the light notice spared on HEAD builds, like the rest of the gate
warnWhenRunningInitExceptHead ==
  IF Argv2 = "init" /\ currentVersion # HEAD THEN <<Ev("light")>> ELSE <<>>

\* warnWhenRunningInit: the events it adds
warnWhenRunningInit ==
  IF Argv2 = "init" THEN <<Ev("light")>> ELSE <<>>

\* warnWithDeprecationSchedule, reading the clock as now
warnWithDeprecationSchedule(now) ==
  IF Argv2 # "init" THEN <<>>
  ELSE LET daysRemaining == daysRemainingAt(now)
       IN <<[ev |-> "schedule", n |-> daysRemaining,
             emph |-> emphasis(daysRemaining), plural |-> daysRemaining > 1]>>

\* variant: the terminal notice without the test of process.argv[2]
warnWithDeprecatedAnyCommand == <<Ev("terminal")>>

\* warnWithDeprecated
warnWithDeprecated ==
  IF Argv2 # "init" THEN <<>> ELSE <<Ev("terminal")>>

\* ------------------------------------------------------------------------
\* getLatestVersion
\* ------------------------------------------------------------------------

LatestStrings ==
  {MkVersion(2, 0, 0), MkVersion(0, 9, 0), MkVersion(0, 75, 10),
   MkVersion(0, 75, 2), MkVersion(0, 76, 0) \o <<"-", "r", "c", ".", "1">>}

\* what the registry can answer: the request fails, or a body arrives that is
\* not JSON, is the JSON null, or is a JSON object whose version field is
\* absent, a number or a string
Responses ==
  {[kind |-> k, version |-> Undefined] : k \in {"request_error", "invalid_json", "json_null"}}
  \cup {[kind |-> "json_object", version |-> v] :
          v \in {Undefined, Num(5)} \cup {Str(x) : x \in LatestStrings}}

\* the promise of getLatestVersion: rejected, or resolved with a value
getLatestVersion(resp) ==
  IF resp.kind \in {"request_error", "invalid_json", "json_null"}
  THEN [ok |-> FALSE, value |-> Undefined]
  ELSE [ok |-> TRUE, value |-> resp.version]

\* the rejection of getLatestVersion
FetchError == [code |-> "ECONNREFUSED", message |-> <<"connect ECONNREFUSED">>]

\* the TypeError of undefined.split or (5).split
SplitTypeError == [code |-> Unset, message |-> <<"version.split is not a function">>]

\* variant: the try without its catch, so that whatever the check raises
\* leaves main
VersionCheckUncaught(result) ==
  IF ~result.ok THEN [events |-> <<>>, error |-> FetchError]
  ELSE IF result.value.t # "str" THEN [events |-> <<>>, error |-> SplitTypeError]
  ELSE IF IsNewer(result.value.s, currentVersion)
       THEN [events |-> <<Ev("upgrade")>>, error |-> NoError]
       ELSE [events |-> <<>>, error |-> NoError]

\* the try/catch of main once the promise has settled: the events it adds and
\* the error that leaves it.  A rejection, and the TypeError that version.split
\* raises for a value that is not a string, both end in the empty catch.
VersionCheck(result) ==
  IF ~result.ok THEN [events |-> <<>>, error |-> NoError]
  ELSE IF result.value.t # "str" THEN [events |-> <<>>, error |-> NoError]
  ELSE IF IsNewer(result.value.s, currentVersion)
       THEN [events |-> <<Ev("upgrade")>>, error |-> NoError]
       ELSE [events |-> <<>>, error |-> NoError]

\* variant: the version check without the opt-out
ShouldCheckVersionIgnoringSkip ==
  isNpxRuntime /\ currentVersion # HEAD

\* the condition of the version check of main
ShouldCheckVersion ==
  isNpxRuntime /\ ~Truthy(env.SKIP) /\ currentVersion # HEAD

\* variant: the cutoff instant itself not yet deprecated
IsDeprecatedAtStrict(now) ==
  CutoffTime < now \/ StartsWith(currentVersion, Prefix076)

\* the constant isDeprecated of main, the clock reading now
IsDeprecatedAt(now) ==
  CutoffTime <= now \/ StartsWith(currentVersion, Prefix076)

\* variant: the terminal branch without the exemption of HEAD builds
GateTerminatesOnHead(deprecated) == deprecated

\* the condition of the terminal branch of main
GateTerminates(deprecated) == currentVersion # HEAD /\ deprecated

\* ------------------------------------------------------------------------
\* Inputs
\* ------------------------------------------------------------------------

Versions ==
  {HEAD, MkVersion(0, 74, 5), MkVersion(0, 75, 2), MkVersion(0, 76, 0),
   MkVersion(1, 0, 0)}

ArgLists == {<<>>, <<"init">>, <<"start">>, <<"run", "init">>}

Environments ==
  [npm_lifecycle_event : {Unset, "npx", "test"},
   SKIP : {Unset, "", "true"},
   npm_config_registry : {Unset, "https://npm.example.org/", ""}]

Times ==
  {-(MaxDays * DayMs), -(5 * DayMs), -(4 * DayMs) - 1, -1, 0, DayMs}

PvIdle == [pc |-> "idle", a |-> <<>>, b |-> <<>>, ta |-> <<>>, tb |-> <<>>,
           ra |-> Undefined, ra0 |-> Undefined, rb |-> Undefined, gt |-> FALSE]

Init ==
  /\ currentVersion \in Versions
  /\ argv \in ArgLists
  /\ env \in Environments
  /\ clock \in Times
  /\ pc = "load"
  /\ requireMain = FALSE
  /\ nowAtGate = CutoffTime
  /\ isDeprecated = FALSE
  /\ fetched = "none"
  /\ latest = Undefined
  /\ loadError = NoError
  /\ log = <<>>
  /\ thrown = NoError
  /\ cli = StubCli
  /\ pv = PvIdle

\* ------------------------------------------------------------------------
\* Actions
\* ------------------------------------------------------------------------

\* time passes: the clock moves on to the next instant of Times
Tick ==
  /\ pc \in {"load", "await", "gate", "proceed"}
  /\ \E t \in Times :
       /\ t > clock
       /\ \A u \in Times : u > clock => t <= u
       /\ clock' = t
  /\ UNCHANGED <<currentVersion, argv, env, pc, requireMain, nowAtGate, isDeprecated,
                 fetched, latest, loadError, log, thrown, cli, pv>>

\* require.main === module: main() runs up to its await
MainStart ==
  /\ pc = "load"
  /\ requireMain' = TRUE
  /\ IF ShouldCheckVersion
     THEN IF ValidUrl(DEFAULT_REGISTRY_HOST)
          THEN /\ log' = Append(log, Ev("get"))
               /\ pc' = "await"
               /\ fetched' = fetched
          ELSE \* new URL throws in the executor: the promise is rejected
               /\ log' = log
               /\ pc' = "gate"
               /\ fetched' = "rejected"
     ELSE /\ log' = log
          /\ pc' = "gate"
          /\ fetched' = fetched
  /\ UNCHANGED <<currentVersion, argv, env, clock, nowAtGate, isDeprecated, latest,
                 loadError, thrown, cli, pv>>

\* the request settles and main resumes after its await
FetchSettle ==
  /\ pc = "await"
  /\ \E resp \in Responses :
       LET result == getLatestVersion(resp)
           check == VersionCheck(result)
       IN /\ fetched' = IF result.ok THEN "resolved" ELSE "rejected"
          /\ latest' = result.value
          /\ log' = log \o check.events
          /\ thrown' = check.error
          /\ pc' = IF check.error = NoError THEN "gate" ELSE "done"
  /\ UNCHANGED <<currentVersion, argv, env, clock, requireMain, nowAtGate,
                 isDeprecated, loadError, cli, pv>>

\* main from the computation of isDeprecated to the end of the terminal branch
Gate ==
  /\ pc = "gate"
  /\ nowAtGate' = clock
  /\ LET deprecated == IsDeprecatedAt(clock)
     IN /\ isDeprecated' = deprecated
        /\ IF GateTerminates(deprecated)
           THEN /\ log' = log \o warnWithDeprecated \o <<[Ev("exit") EXCEPT !.n = 1]>>
                /\ pc' = "done"
           ELSE /\ log' = log
                /\ pc' = "proceed"
  /\ UNCHANGED <<currentVersion, argv, env, clock, requireMain, fetched, latest,
                 loadError, thrown, cli, pv>>

\* the rest of main: the schedule warning, the light notice, the delegation
Proceed ==
  /\ pc = "proceed"
  /\ \E outcome \in RequireOutcomes :
       LET warnings ==
             (IF StartsWith(currentVersion, Prefix075)
              THEN warnWithDeprecationSchedule(clock) ELSE <<>>)
             \o warnWhenRunningInit
       IN /\ loadError' = outcome
          /\ IF outcome = NoError
             THEN /\ log' = log \o warnings \o <<Ev("run")>>
                  /\ thrown' = thrown
             ELSE /\ log' = log \o warnings
                  /\ thrown' = outcome
  /\ pc' = "done"
  /\ UNCHANGED <<currentVersion, argv, env, clock, requireMain, nowAtGate,
                 isDeprecated, fetched, latest, cli, pv>>

\* require.main !== module: the module is loaded as a library
LibraryLoad ==
  /\ pc = "load"
  /\ requireMain' = FALSE
  /\ \E outcome \in RequireOutcomes :
       /\ loadError' = outcome
       /\ IF outcome = NoError
          THEN /\ cli' = CommunityCli
               /\ thrown' = thrown
          ELSE /\ cli' = cli
               /\ thrown' = IF Rethrows(outcome) THEN outcome ELSE thrown
  /\ pc' = "loaded"
  /\ UNCHANGED <<currentVersion, argv, env, clock, nowAtGate, isDeprecated,
                 fetched, latest, log, pv>>

Next ==
  \/ Tick
  \/ MainStart
  \/ FetchSettle
  \/ Gate
  \/ Proceed
  \/ LibraryLoad

Spec == Init /\ [][Next]_vars

\* ------------------------------------------------------------------------
\* The parseVersion harness: two release versions, parsed and compared
\* ------------------------------------------------------------------------

PartValues == {0, 9, 10, 100}

PreSuffixes == {<<>>, <<"-", "r", "c", ".", "1">>}

Triples == (0..MaxMajor) \X PartValues \X PartValues

TripleString(t) == MkVersion(t[1], t[2], t[3])

InitPV ==
  /\ currentVersion = HEAD
  /\ argv = <<>>
  /\ env = [npm_lifecycle_event |-> Unset, SKIP |-> Unset, npm_config_registry |-> Unset]
  /\ clock = CutoffTime
  /\ pc = "idle"
  /\ requireMain = FALSE
  /\ nowAtGate = CutoffTime
  /\ isDeprecated = FALSE
  /\ fetched = "none"
  /\ latest = Undefined
  /\ loadError = NoError
  /\ log = <<>>
  /\ thrown = NoError
  /\ cli = StubCli
  /\ \E ta \in Triples, tb \in Triples, pa \in PreSuffixes, pb \in PreSuffixes :
       pv = [PvIdle EXCEPT !.pc = "input", !.ta = ta, !.tb = tb,
                           !.a = TripleString(ta) \o pa,
                           !.b = TripleString(tb) \o pb]

PVParse ==
  /\ pv.pc = "input"
  /\ pv' = [pv EXCEPT !.pc = "parsed",
                      !.ra = parseVersion(pv.a),
                      !.ra0 = parseVersion(TripleString(pv.ta)),
                      !.rb = parseVersion(pv.b)]
  /\ UNCHANGED <<currentVersion, argv, env, clock, pc, requireMain, nowAtGate,
                 isDeprecated, fetched, latest, loadError, log, thrown, cli>>

PVCompare ==
  /\ pv.pc = "parsed"
  /\ pv' = [pv EXCEPT !.pc = "compared", !.gt = JsGreater(pv.ra, pv.rb)]
  /\ UNCHANGED <<currentVersion, argv, env, clock, pc, requireMain, nowAtGate,
                 isDeprecated, fetched, latest, loadError, log, thrown, cli>>

NextPV ==
  \/ PVParse
  \/ PVCompare

SpecPV == InitPV /\ [][NextPV]_vars

\* ------------------------------------------------------------------------
\* Vocabulary of the properties
\* ------------------------------------------------------------------------

HasEv(name) == \E i \in 1..Len(log) : log[i].ev = name

CountEv(name) == Cardinality({i \in 1..Len(log) : log[i].ev = name})

LastEv == IF log = <<>> THEN "" ELSE log[Len(log)].ev

DeprecationEvents == {"terminal", "schedule", "light"}

\* main ran to its end: it exited, delegated, or failed to load the delegate
MainEnded == requireMain /\ pc = "done"

\* main executed its last statement, the require of the delegate and its run
DelegationReached ==
  \/ LastEv = "run" /\ thrown = NoError
  \/ thrown \in RequireErrors /\ thrown = loadError

\* standard major.minor.patch order of two releases
TripleNewer(x, y) ==
  \/ x[1] > y[1]
  \/ x[1] = y[1] /\ x[2] > y[2]
  \/ x[1] = y[1] /\ x[2] = y[2] /\ x[3] > y[3]

\* the release numbers of a version string X.Y.Z or X.Y.Z-pre
ReleaseTriple(version) ==
  LET parts == Split(Split(version, "-")[1], ".")
  IN <<DigitsToNat(parts[1]), DigitsToNat(parts[2]), DigitsToNat(parts[3])>>

\* the registry answered with a version string
RegistryAnswered == requireMain /\ fetched = "resolved" /\ latest.t = "str"

\* the advisory fetch failed: the request or the body failed, or the JSON
\* carries no version string
FetchFailed ==
  \/ fetched = "rejected"
  \/ fetched = "resolved" /\ latest.t # "str"

\* ------------------------------------------------------------------------
\* Properties
\* ------------------------------------------------------------------------

\* C1: for a RunningVersion other than HEAD, once main has read a date at or
\* after the cutoff, or when the version starts with 0.76, the run ends with
\* process.exit(1) as its last event, the delegate is never run, nothing is
\* thrown, and with first argument init the terminal notice is printed right
\* before the exit.
C1_TerminalGateExits ==
  (/\ requireMain
   /\ pc \in {"proceed", "done"}
   /\ currentVersion # HEAD
   /\ (nowAtGate >= CutoffTime \/ StartsWith(currentVersion, Prefix076)))
  => /\ pc = "done"
     /\ LastEv = "exit"
     /\ log[Len(log)].n = 1
     /\ ~HasEv("run")
     /\ thrown = NoError
     /\ Argv2 = "init" => Len(log) >= 2 /\ log[Len(log) - 1].ev = "terminal"

C1_Witness ==
  /\ MainEnded
  /\ currentVersion = MkVersion(0, 74, 5)
  /\ nowAtGate = CutoffTime
  /\ Argv2 = "init"
  /\ HasEv("get")
  /\ LastEv = "exit"

\* C2: on a HEAD build with first argument init, at any date and in any
\* environment, main never calls process.exit, never issues a registry
\* request, and a finished run has reached the delegation.
C2_HeadBypassesGate ==
  (requireMain /\ currentVersion = HEAD /\ Argv2 = "init")
  => /\ ~HasEv("exit")
     /\ ~HasEv("get")
     /\ pc \in {"gate", "proceed", "done"}
     /\ pc = "done" => DelegationReached

C2_Witness ==
  /\ MainEnded
  /\ currentVersion = HEAD
  /\ Argv2 = "init"
  /\ nowAtGate >= CutoffTime
  /\ env.npm_lifecycle_event = "npx"
  /\ env.SKIP = Unset
  /\ LastEv = "run"

\* C3: when the registry answers with a version, the upgrade warning is
\* printed exactly when that version is a strictly newer release than
\* RunningVersion; in particular with RunningVersion 1.0.0 the answer 2.0.0
\* prints it and the answer 0.9.0 prints nothing.
C3_WarnsIffNewer ==
  RegistryAnswered
  => (HasEv("upgrade")
        <=> TripleNewer(ReleaseTriple(latest.s), ReleaseTriple(currentVersion)))

\* C4: parseVersion gives the same result with and without a pre-release
\* suffix, and the comparison of main finds parseVersion(a) > parseVersion(b)
\* whenever a is a strictly newer release than b (minor and patch below 1000).
C4_ParseVersionOrder ==
  (pv.pc = "compared")
  => /\ pv.ra = pv.ra0
     /\ TripleNewer(pv.ta, pv.tb) => pv.gt

\* C5: a registry request is issued only when npm_lifecycle_event is npx, SKIP
\* is not truthy and RunningVersion is not HEAD, and at most once per run.
C5_RequestOnlyWhenEnabled ==
  /\ CountEv("get") <= 1
  /\ HasEv("get")
     => /\ env.npm_lifecycle_event = "npx"
        /\ ~Truthy(env.SKIP)
        /\ currentVersion # HEAD

C5_Witness ==
  /\ MainEnded
  /\ HasEv("get")
  /\ env.SKIP = ""
  /\ env.npm_config_registry # Unset

\* C6: when the advisory fetch fails (request error, body that is not JSON,
\* JSON without a version string) nothing is thrown out of main and no
\* upgrade warning is printed, and the step in which the failure arrives
\* leaves main where a run without the check stands: at the gate, with no
\* output added.
C6_FetchFailureIgnored ==
  /\ [](requireMain /\ FetchFailed
          => /\ ~HasEv("upgrade")
             /\ thrown \in {NoError} \cup RequireErrors
             /\ thrown # NoError => DelegationReached)
  /\ [][(pc = "await" /\ FetchFailed')
          => (pc' = "gate" /\ log' = log /\ thrown' = NoError)]_vars

C6_Witness ==
  /\ MainEnded
  /\ fetched = "resolved"
  /\ latest = Undefined
  /\ LastEv = "run"
  /\ HasEv("light")

\* C7: on the library path, a failure of the resolution of the community CLI
\* is swallowed only if it is a module-not-found failure that names that
\* package; any other error reaches the importer unchanged.
C7_OnlyNotFoundSwallowed ==
  (pc = "loaded" /\ loadError # NoError)
  => IF loadError.code = "MODULE_NOT_FOUND" /\ MentionsCli(loadError.message)
     THEN thrown = NoError /\ cli = StubCli
     ELSE thrown = loadError

\* C8: a run of main whose first argument is not init prints no deprecation
\* message: no terminal notice, no schedule warning, no light notice.
C8_NoDeprecationWithoutInit ==
  (requireMain /\ Argv2 # "init")
  => \A i \in 1..Len(log) : log[i].ev \notin DeprecationEvents

C8_Witness ==
  /\ MainEnded
  /\ argv = <<"run", "init">>
  /\ currentVersion = MkVersion(0, 75, 2)
  /\ LastEv = "exit"

\* C9: for a version starting with 0.75, a date before the cutoff and first
\* argument init, the schedule warning is printed once with the count
\* ceil((cutoff - now) / 86_400_000), which is 5 five days before the cutoff
\* and never below 1, the process does not exit and the delegation follows.
C9_ScheduleWarning ==
  (/\ MainEnded
   /\ StartsWith(currentVersion, Prefix075)
   /\ nowAtGate < CutoffTime
   /\ Argv2 = "init")
  => /\ CountEv("schedule") = 1
     /\ \A i \in 1..Len(log) :
          log[i].ev = "schedule"
          => /\ log[i].n * DayMs >= CutoffTime - clock
             /\ (log[i].n - 1) * DayMs < CutoffTime - clock
             /\ clock = -(5 * DayMs) => log[i].n = 5
             /\ log[i].n >= 1
     /\ ~HasEv("exit")
     /\ DelegationReached

\* C10: in a finished run of main the light notice is printed (once) exactly
\* when the first argument is init and the terminal branch was not taken, on
\* HEAD builds too; it comes after the upgrade and schedule warnings and
\* before the delegate runs.
C10_LightNotice ==
  /\ (requireMain /\ pc # "done") => ~HasEv("light")
  /\ MainEnded
     => /\ HasEv("light") <=> (Argv2 = "init" /\ ~HasEv("exit"))
        /\ CountEv("light") <= 1
        /\ \A i, j \in 1..Len(log) :
             log[i].ev = "light"
             => /\ log[j].ev \in {"get", "upgrade", "schedule"} => j < i
                /\ log[j].ev = "run" => i < j

C10_Witness ==
  /\ MainEnded
  /\ HasEv("upgrade")
  /\ HasEv("schedule")
  /\ HasEv("light")
  /\ LastEv = "run"

====
